---- MODULE Spec2Model ----
(***************************************************************************)
(* ESP8266 MakeCode library: the AT-command transport (sendCommand,        *)
(* getResponse), the link state (init, connectWiFi, disconnectWiFi), the   *)
(* HTTP client and the Firebase REST client.                               *)
(*                                                                         *)
(* The program is one fiber that blocks in polling loops; the ESP8266      *)
(* module and the clock are the environment.  A public operation is an     *)
(* action with one disjunct per place where it waits; pc names that place  *)
(* and is "idle" between calls.  Strings are TLA+ strings, handled with    *)
(* Len, \o and SubSeq as the code handles them with length, + and substr.  *)
(***************************************************************************)
EXTENDS Integers, Sequences, FiniteSets, TLC

VARIABLES
    esp8266Initialized,   \* part_000:6
    rxData,               \* part_000:7   the shared receive buffer
    wifiConnected,        \* part_000:8
    firebaseApiKey,       \* firebase.ts:8
    firebaseDatabaseURL,  \* firebase.ts:10
    firebaseProjectId,    \* firebase.ts:12
    firebasePath,         \* firebase.ts:14
    firebaseDataSent,     \* firebase.ts:16
    serialIn,             \* bytes the channel holds, not yet taken by serial.readString()
    tx,                   \* what the current call has written with serial.writeString()
    pc,                   \* where the running operation waits; "idle" between calls
    op,                   \* the public operation running, or the last one that ran
    arg,                  \* its arguments
    loc,                  \* its local variable response (firebase.ts:207)
    elapsed,              \* input.runningTime() - start of the wait in progress
    nchunks,              \* chunks the module has sent since the wait began
    ret,                  \* what the last call returned
    hist                  \* outcome of each wait of the current call, in order

vars == <<esp8266Initialized, rxData, wifiConnected, firebaseApiKey,
          firebaseDatabaseURL, firebaseProjectId, firebasePath, firebaseDataSent,
          serialIn, tx, pc, op, arg, loc, elapsed, nchunks, ret, hist>>

link == <<esp8266Initialized, wifiConnected>>
config == <<firebaseApiKey, firebaseDatabaseURL, firebaseProjectId, firebasePath>>

(***************************************************************************)
(* Bounds of the model.                                                    *)
(***************************************************************************)
\* chunks the module may send during one wait (and while the program idles)
MaxChunks == 2

\* instants, in ms since a wait began, at which the clock is observed
Samples == {1000, 20000}

(***************************************************************************)
(* String helpers: String.indexOf, String.substr, String.charAt.           *)
(***************************************************************************)
\* s.indexOf(t, from): 0-based index of the first occurrence at or after from, or -1
indexOfFrom(s, t, from) ==
    LET hits == {i \in from..(Len(s) - Len(t)) : SubSeq(s, i + 1, i + Len(t)) = t}
    IN  IF hits = {} THEN -1 ELSE CHOOSE i \in hits : \A j \in hits : i <= j

indexOf(s, t) == indexOfFrom(s, t, 0)

\* s.substr(start, length)
substr(s, start, length) ==
    IF start >= Len(s) \/ length <= 0 THEN ""
    ELSE SubSeq(s, start + 1, IF start + length > Len(s) THEN Len(s) ELSE start + length)

\* s.substr(start)
substrFrom(s, start) == substr(s, start, Len(s))

\* s.charAt(i): "" when i is out of range
charAt(s, i) == IF i < 0 \/ i >= Len(s) THEN "" ELSE SubSeq(s, i + 1, i + 1)

(***************************************************************************)
(* The clock.  A sleep of ms returns after at least ms; a tight loop sees  *)
(* the clock move on by at least 1.                                        *)
(***************************************************************************)
After(e) == IF \E s \in Samples : s >= e THEN {s \in Samples : s >= e} ELSE {e}

(***************************************************************************)
(* The waits of the program: for each place where it sits in a sendCommand *)
(* or getResponse, the marker and the timeout that call was given.         *)
(***************************************************************************)
Waits == [
    init_rst      |-> [expected |-> "ready",       timeout |-> 5000],   \* part_000:88
    init_ate0     |-> [expected |-> "OK",          timeout |-> 1000],   \* part_000:94
    init_cwmode   |-> [expected |-> "OK",          timeout |-> 1000],   \* part_000:100
    cw_jap        |-> [expected |-> "WIFI GOT IP", timeout |-> 20000],  \* part_000:120
    dw_qap        |-> [expected |-> "OK",          timeout |-> 1000],   \* part_000:147
    raw_jap       |-> [expected |-> "WIFI GOT IP", timeout |-> 20000],  \* http.ts:28
    raw_start     |-> [expected |-> "CONNECT",     timeout |-> 8000],   \* http.ts:35
    raw_send      |-> [expected |-> ">",           timeout |-> 5000],   \* http.ts:46
    sts_jap       |-> [expected |-> "WIFI GOT IP", timeout |-> 20000],  \* http.ts:83
    sts_start     |-> [expected |-> "CONNECT",     timeout |-> 8000],   \* http.ts:87
    sts_send      |-> [expected |-> ">",           timeout |-> 5000],   \* http.ts:99
    get_start     |-> [expected |-> "CONNECT",     timeout |-> 5000],   \* http.ts:126
    get_send      |-> [expected |-> ">",           timeout |-> 3000],   \* http.ts:135
    post_start    |-> [expected |-> "CONNECT",     timeout |-> 5000],   \* http.ts:169
    post_send     |-> [expected |-> ">",           timeout |-> 3000],   \* http.ts:181
    rfs_start     |-> [expected |-> "OK",          timeout |-> 5000],   \* firebase.ts:186
    rfs_send      |-> [expected |-> "OK",          timeout |-> 2000],   \* firebase.ts:198
    rfs_closeSend |-> [expected |-> "OK",          timeout |-> 1000],   \* firebase.ts:199
    rfs_resp      |-> [expected |-> "",            timeout |-> 3000],   \* firebase.ts:207
    rfs_close     |-> [expected |-> "OK",          timeout |-> 500],    \* firebase.ts:210
    sfd_start     |-> [expected |-> "OK",          timeout |-> 3000],   \* firebase.ts:357
    sfd_send      |-> [expected |-> "OK",          timeout |-> 1000],   \* firebase.ts:372
    sfd_closeSend |-> [expected |-> "OK",          timeout |-> 1000],   \* firebase.ts:373
    sfd_ack       |-> [expected |-> "SEND OK",     timeout |-> 1500],   \* firebase.ts:380
    sfd_closeAck  |-> [expected |-> "OK",          timeout |-> 500],    \* firebase.ts:381
    sfd_resp      |-> [expected |-> "",            timeout |-> 1500],   \* firebase.ts:386
    sfd_close     |-> [expected |-> "OK",          timeout |-> 500],    \* firebase.ts:394
    del_start     |-> [expected |-> "OK",          timeout |-> 3000],   \* firebase.ts:548
    del_send      |-> [expected |-> "OK",          timeout |-> 1000],   \* firebase.ts:560
    del_closeSend |-> [expected |-> "OK",          timeout |-> 1000],   \* firebase.ts:561
    del_close     |-> [expected |-> "OK",          timeout |-> 500] ]   \* firebase.ts:569

\* the places that are the loop of a sendCommand (the others are a getResponse)
CommandWaits == DOMAIN Waits \ {"rfs_resp", "sfd_ack", "sfd_resp"}

\* the program sits in the loop of a sendCommand
InSendCommand == pc \in CommandWaits

(***************************************************************************)
(* sendCommand (part_000:20-38).                                           *)
(***************************************************************************)
\* sendCommandOn without line 26: what the channel holds is kept
sendCommandOnKeepingStale(sent, command, label) ==
    /\ rxData' = ""
    /\ UNCHANGED serialIn
    /\ tx' = Append(sent, command \o "\r\n")
    /\ elapsed' = 0
    /\ nchunks' = 0
    /\ pc' = label

\* lines 25-27 and 31: reset the buffer, drop what the channel holds, write the
\* command after what the call has sent so far
sendCommandOn(sent, command, label) ==
    /\ rxData' = ""
    /\ serialIn' = ""
    /\ tx' = Append(sent, command \o "\r\n")
    /\ elapsed' = 0
    /\ nchunks' = 0
    /\ pc' = label

sendCommandBegin(command, label) == sendCommandOn(tx, command, label)

\* lines 25-29 with expected = null: written, and true at once
sendCommandNull(command) ==
    /\ rxData' = ""
    /\ serialIn' = ""
    /\ tx' = Append(tx, command \o "\r\n")

\* sendCommandPoll with lines 34 and 35 in the other order
sendCommandPollErrorFirst(expected, timeout) ==
    IF ~(elapsed < timeout) THEN "false"
    ELSE LET buf == rxData \o serialIn
         IN  IF indexOf(buf, "ERROR") >= 0 THEN "false"
             ELSE IF indexOf(buf, expected) >= 0 THEN "true"
             ELSE "wait"

\* sendCommandPoll with a loop that never looks at the clock
sendCommandPollNoTimeout(expected, timeout) ==
    LET buf == rxData \o serialIn
    IN  IF indexOf(buf, expected) >= 0 THEN "true"
        ELSE IF indexOf(buf, "ERROR") >= 0 THEN "false"
        ELSE "wait"

\* lines 32-37, one pass of the loop: "true", "false" or "wait" (go round again)
sendCommandPoll(expected, timeout) ==
    IF ~(elapsed < timeout) THEN "false"
    ELSE LET buf == rxData \o serialIn
         IN  IF indexOf(buf, expected) >= 0 THEN "true"
             ELSE IF indexOf(buf, "ERROR") >= 0 THEN "false"
             ELSE "wait"

\* line 33 runs only inside the loop: rxData and the channel after the pass
Polled(timeout) ==
    /\ rxData' = (IF elapsed < timeout THEN rxData \o serialIn ELSE rxData)
    /\ serialIn' = (IF elapsed < timeout THEN "" ELSE serialIn)

\* the outcome of a finished sendCommand or getResponse is noted for the call
Noted(label, ok) == hist' = Append(hist, [at |-> label, ok |-> ok])

\* a returned value is kept with its TypeScript type (the nothing of a void
\* function as the empty string)
ofString(s) == [string |-> s]
ofBoolean(b) == [boolean |-> b]
ofNumber(n) == [number |-> n]

\* the call returns to the idle program with value v
Return(v) ==
    /\ pc' = "idle"
    /\ ret' = v
    /\ elapsed' = 0

\* a public operation is entered: its per-call records start empty
Enter(name, a) ==
    /\ pc = "idle"
    /\ op' = name
    /\ arg' = a
    /\ loc' = [response |-> ""]

NoArg == [none |-> TRUE]

\* Exchange with the result of the sendCommand ignored: the caller goes on as if
\* it had been true
ExchangeResultIgnored(label, OnTrue, OnFalse) ==
    /\ pc = label
    /\ LET w == Waits[label]
           r == sendCommandPoll(w.expected, w.timeout)
       IN  \/ /\ r = "wait"
              /\ Polled(w.timeout)
              /\ UNCHANGED <<link, config, firebaseDataSent, tx, pc, op, arg, loc,
                             elapsed, nchunks, ret, hist>>
           \/ /\ r # "wait"
              /\ Noted(label, r = "true")
              /\ OnTrue

\* the program waits at label in a sendCommand; OnTrue and OnFalse say how the
\* caller goes on (they set tx, pc, ret, elapsed, nchunks, the flags and loc)
Exchange(label, OnTrue, OnFalse) ==
    /\ pc = label
    /\ LET w == Waits[label]
           r == sendCommandPoll(w.expected, w.timeout)
       IN  \/ /\ r = "wait"
              /\ Polled(w.timeout)
              /\ UNCHANGED <<link, config, firebaseDataSent, tx, pc, op, arg, loc,
                             elapsed, nchunks, ret, hist>>
           \/ /\ r = "true"
              /\ Noted(label, TRUE)
              /\ OnTrue
           \/ /\ r = "false"
              /\ Noted(label, FALSE)
              /\ OnFalse

\* the caller goes on with the next sendCommand
ThenCommand(command, label) ==
    /\ sendCommandBegin(command, label)
    /\ UNCHANGED <<link, config, firebaseDataSent, op, arg, loc, ret>>

\* the caller returns v, the flags as they are
ThenReturn(label, v) ==
    /\ Return(v)
    /\ Polled(Waits[label].timeout)
    /\ UNCHANGED <<link, config, firebaseDataSent, tx, op, arg, loc, nchunks>>

(***************************************************************************)
(* init (part_000:83-106).                                                 *)
(***************************************************************************)
\* the first sendCommand of a call
FirstCommand(command, label) ==
    /\ sendCommandOn(<<>>, command, label)
    /\ hist' = <<>>
    /\ UNCHANGED <<link, config, firebaseDataSent, ret>>

\* the call returns at once, having written nothing
NoOp(v) ==
    /\ Return(v)
    /\ tx' = <<>>
    /\ hist' = <<>>
    /\ UNCHANGED <<link, config, firebaseDataSent, rxData, serialIn, nchunks>>

\* init clearing wifiConnected when it resets the module
initClearingLink ==
    \/ /\ Enter("init", NoArg)
       /\ sendCommandOn(<<>>, "AT+RST", "init_rst")
       /\ hist' = <<>>
       /\ wifiConnected' = FALSE
       /\ UNCHANGED <<esp8266Initialized, config, firebaseDataSent, ret>>
    \/ Exchange("init_rst",
                ThenCommand("ATE0", "init_ate0"),                       \* line 94
                ThenReturn("init_rst", ofString("")))                   \* lines 89-90
    \/ Exchange("init_ate0",
                ThenCommand("AT+CWMODE=1", "init_cwmode"),              \* line 100
                ThenReturn("init_ate0", ofString("")))                  \* lines 95-96
    \/ Exchange("init_cwmode",
                /\ esp8266Initialized' = TRUE                           \* line 105
                /\ Return(ofString(""))
                /\ Polled(Waits.init_cwmode.timeout)
                /\ UNCHANGED <<wifiConnected, config, firebaseDataSent, tx, op, arg,
                               loc, nchunks>>,
                ThenReturn("init_cwmode", ofString("")))                \* lines 101-102

init ==
    \/ /\ Enter("init", NoArg)          \* lines 84-88; the bytes of the pause are dropped
       /\ FirstCommand("AT+RST", "init_rst")
    \/ Exchange("init_rst",
                ThenCommand("ATE0", "init_ate0"),                       \* line 94
                ThenReturn("init_rst", ofString("")))                   \* lines 89-90
    \/ Exchange("init_ate0",
                ThenCommand("AT+CWMODE=1", "init_cwmode"),              \* line 100
                ThenReturn("init_ate0", ofString("")))                  \* lines 95-96
    \/ Exchange("init_cwmode",
                /\ esp8266Initialized' = TRUE                           \* line 105
                /\ Return(ofString(""))
                /\ Polled(Waits.init_cwmode.timeout)
                /\ UNCHANGED <<wifiConnected, config, firebaseDataSent, tx, op, arg,
                               loc, nchunks>>,
                ThenReturn("init_cwmode", ofString("")))                \* lines 101-102

(***************************************************************************)
(* connectWiFi (part_000:115-130) and disconnectWiFi (part_000:146-149).   *)
(***************************************************************************)
Ssids == {"net"}
Passwords == {"pw"}

\* line 121
joinCommand(ssid, password) == "AT+CWJAP=\"" \o ssid \o "\",\"" \o password \o "\""

\* Joined without line 125
JoinedFlagNotSet(label) ==
    /\ Polled(Waits[label].timeout)
    /\ UNCHANGED <<link, config, firebaseDataSent, tx, op, arg, loc, nchunks>>

\* lines 125-126 for the caller waiting at label: the flag is set
Joined(label) ==
    /\ wifiConnected' = TRUE
    /\ Polled(Waits[label].timeout)
    /\ UNCHANGED <<esp8266Initialized, config, firebaseDataSent, tx, op, arg, loc,
                   nchunks>>

\* connectWiFi without line 116
connectWiFiUnguarded ==
    \/ \E ssid \in Ssids, password \in Passwords :
          /\ Enter("connectWiFi", [ssid |-> ssid, password |-> password])
          /\ wifiConnected' = FALSE                                     \* line 118
          /\ sendCommandOn(<<>>, joinCommand(ssid, password), "cw_jap")
          /\ hist' = <<>>
          /\ UNCHANGED <<esp8266Initialized, config, firebaseDataSent, ret>>
    \/ Exchange("cw_jap",
                Joined("cw_jap") /\ Return(ofBoolean(TRUE)),
                ThenReturn("cw_jap", ofBoolean(FALSE)))

connectWiFi ==
    \/ \E ssid \in Ssids, password \in Passwords :
          /\ Enter("connectWiFi", [ssid |-> ssid, password |-> password])
          /\ IF ~esp8266Initialized
             THEN NoOp(ofBoolean(FALSE))                                \* line 116
             ELSE /\ wifiConnected' = FALSE                             \* line 118
                  /\ sendCommandOn(<<>>, joinCommand(ssid, password), "cw_jap")
                  /\ hist' = <<>>
                  /\ UNCHANGED <<esp8266Initialized, config, firebaseDataSent, ret>>
    \/ Exchange("cw_jap",
                Joined("cw_jap") /\ Return(ofBoolean(TRUE)),            \* lines 125-126
                ThenReturn("cw_jap", ofBoolean(FALSE)))                 \* line 129

\* Left without line 148
LeftFlagKept ==
    /\ Return(ofString(""))
    /\ Polled(Waits.dw_qap.timeout)
    /\ UNCHANGED <<link, config, firebaseDataSent, tx, op, arg, loc, nchunks>>

\* line 148, whatever the exchange gave
Left ==
    /\ wifiConnected' = FALSE
    /\ Return(ofString(""))
    /\ Polled(Waits.dw_qap.timeout)
    /\ UNCHANGED <<esp8266Initialized, config, firebaseDataSent, tx, op, arg, loc,
                   nchunks>>

disconnectWiFi ==
    \/ /\ Enter("disconnectWiFi", NoArg)                                \* line 147
       /\ FirstCommand("AT+CWQAP", "dw_qap")
    \/ Exchange("dw_qap", Left, Left)

\* setWifiConnected (part_000:70-72)
setWifiConnected ==
    \E status \in BOOLEAN :
        /\ Enter("setWifiConnected", [status |-> status])
        /\ wifiConnected' = status
        /\ Return(ofString(""))
        /\ tx' = <<>>
        /\ hist' = <<>>
        /\ UNCHANGED <<esp8266Initialized, config, firebaseDataSent, rxData, serialIn,
                       nchunks>>

(***************************************************************************)
(* The HTTP client (http.ts).                                              *)
(***************************************************************************)
ServerIps == {"10.0.0.7"}
Paths == {"/t"}
Datas == {"a=1"}

\* http.ts:36, 88, 126, 169
tcpStart(serverIp) == "AT+CIPSTART=\"TCP\",\"" \o serverIp \o "\",80"

\* http.ts:41-44 and 130-133
getRequest(serverIp, path) ==
    "GET " \o path \o " HTTP/1.1\r\n" \o
    "Host: " \o serverIp \o "\r\n" \o
    "Connection: close\r\n\r\n"

\* http.ts:93-96
sendRequest(serverIp, data) ==
    "GET /tes.php?" \o data \o " HTTP/1.1\r\n" \o
    "Host: " \o serverIp \o "\r\n" \o
    "Connection: close\r\n\r\n"

\* http.ts:173-179
postRequest(serverIp, path, data) ==
    "POST " \o path \o " HTTP/1.1\r\n" \o
    "Host: " \o serverIp \o "\r\n" \o
    "Content-Type: application/json\r\n" \o
    "Content-Length: " \o ToString(Len(data)) \o "\r\n" \o
    "Connection: close\r\n\r\n" \o
    data

\* the fixed windows in which the HTTP operations drain the channel, and their sleeps
Drains == [
    raw_drain  |-> [window |-> 8000, pause |-> 200],    \* http.ts:54-57
    get_drain  |-> [window |-> 5000, pause |-> 200],    \* http.ts:143-146
    post_drain |-> [window |-> 5000, pause |-> 200] ]   \* http.ts:189-192

\* serial.writeString(httpRequest) after the prompt, then the drain loop begins;
\* rxData keeps what the AT+CIPSEND exchange read
ThenDrain(from, request, label) ==
    /\ Polled(Waits[from].timeout)
    /\ tx' = Append(tx, request)
    /\ elapsed' = 0
    /\ nchunks' = 0
    /\ pc' = label
    /\ UNCHANGED <<link, config, firebaseDataSent, op, arg, loc, ret>>

\* sendCommand("AT+CIPCLOSE") and the return of v; the buffer is empty by then
CloseReturn(v) ==
    /\ sendCommandNull("AT+CIPCLOSE")
    /\ Return(v)
    /\ UNCHANGED <<link, config, firebaseDataSent, op, arg, loc, nchunks>>

\* one pass of a drain loop, or its end: close, and return rxData
Drain(label) ==
    /\ pc = label
    /\ IF elapsed < Drains[label].window
       THEN /\ rxData' = rxData \o serialIn
            /\ serialIn' = ""
            /\ elapsed' \in After(elapsed + Drains[label].pause)
            /\ UNCHANGED <<link, config, firebaseDataSent, tx, pc, op, arg, loc,
                           nchunks, ret, hist>>
       ELSE /\ CloseReturn(ofString(""))     \* sendCommand has reset rxData
            /\ UNCHANGED hist

\* SendFailed without the sendCommand("AT+CIPCLOSE") of lines 47, 100, 136, 182
SendFailedNoClose(v) ==
    /\ Return(v)
    /\ UNCHANGED <<link, config, firebaseDataSent, rxData, serialIn, tx, op, arg, loc,
                   nchunks>>

\* AT+CIPSEND got no prompt: close and return v (lines 46-49, 99-102, 135-138, 181-184)
SendFailed(v) == CloseReturn(v)

\* connectWiFi succeeded inside getRawFromServer / sendToServer: go on to AT+CIPSTART
JoinedThenStart(from, serverIp, label) ==
    /\ wifiConnected' = TRUE
    /\ sendCommandBegin(tcpStart(serverIp), label)
    /\ UNCHANGED <<esp8266Initialized, config, firebaseDataSent, op, arg, loc, ret>>

\* the entry of getRawFromServer and sendToServer: lines 24-39 and 79-91
EnterWithJoin(empty, jap, start) ==
    IF ~esp8266Initialized
    THEN NoOp(empty)
    ELSE IF ~wifiConnected
    THEN /\ wifiConnected' = FALSE                                  \* part_000:118
         /\ sendCommandOn(<<>>, joinCommand(arg'.ssid, arg'.password), jap)
         /\ hist' = <<>>
         /\ UNCHANGED <<esp8266Initialized, config, firebaseDataSent, ret>>
    ELSE FirstCommand(tcpStart(arg'.serverIp), start)

getRawFromServer ==
    \/ \E serverIp \in ServerIps, ssid \in Ssids, password \in Passwords, path \in Paths :
          /\ Enter("getRawFromServer", [serverIp |-> serverIp, ssid |-> ssid,
                                        password |-> password, path |-> path])
          /\ EnterWithJoin(ofString(""), "raw_jap", "raw_start")
    \/ Exchange("raw_jap",
                JoinedThenStart("raw_jap", arg.serverIp, "raw_start"),
                ThenReturn("raw_jap", ofString("")))                    \* line 28
    \/ Exchange("raw_start",
                ThenCommand("AT+CIPSEND=" \o
                            ToString(Len(getRequest(arg.serverIp, arg.path)) + 2),
                            "raw_send"),                                \* line 46
                ThenReturn("raw_start", ofString("")))                  \* line 39
    \/ Exchange("raw_send",
                ThenDrain("raw_send", getRequest(arg.serverIp, arg.path), "raw_drain"),
                SendFailed(ofString("")))                               \* lines 47-48
    \/ Drain("raw_drain")                                               \* lines 53-60

sendToServer ==
    \/ \E serverIp \in ServerIps, ssid \in Ssids, password \in Passwords, data \in Datas :
          /\ Enter("sendToServer", [serverIp |-> serverIp, ssid |-> ssid,
                                    password |-> password, data |-> data])
          /\ EnterWithJoin(ofBoolean(FALSE), "sts_jap", "sts_start")
    \/ Exchange("sts_jap",
                JoinedThenStart("sts_jap", arg.serverIp, "sts_start"),
                ThenReturn("sts_jap", ofBoolean(FALSE)))                \* line 83
    \/ Exchange("sts_start",
                ThenCommand("AT+CIPSEND=" \o
                            ToString(Len(sendRequest(arg.serverIp, arg.data)) + 2),
                            "sts_send"),                                \* lines 98-99
                ThenReturn("sts_start", ofBoolean(FALSE)))              \* line 91
    \/ Exchange("sts_send",
                ThenDrain("sts_send", sendRequest(arg.serverIp, arg.data), "sts_pause"),
                SendFailed(ofBoolean(FALSE)))                           \* lines 100-101
    \/ /\ pc = "sts_pause"                                              \* lines 105-107
       /\ CloseReturn(ofBoolean(TRUE))
       /\ UNCHANGED hist

\* EnterConnected without lines 120 and 163
EnterInitialized(start) ==
    IF ~esp8266Initialized
    THEN NoOp(ofString(""))
    ELSE FirstCommand(tcpStart(arg'.serverIp), start)

\* the entry of httpGet and httpPost: lines 119-126 and 162-169
EnterConnected(start) ==
    IF ~esp8266Initialized \/ ~wifiConnected
    THEN NoOp(ofString(""))
    ELSE FirstCommand(tcpStart(arg'.serverIp), start)

httpGet ==
    \/ \E serverIp \in ServerIps, path \in Paths :
          /\ Enter("httpGet", [serverIp |-> serverIp, path |-> path])
          /\ EnterConnected("get_start")
    \/ Exchange("get_start",
                ThenCommand("AT+CIPSEND=" \o
                            ToString(Len(getRequest(arg.serverIp, arg.path))),
                            "get_send"),                                \* line 135
                ThenReturn("get_start", ofString("")))                  \* line 127
    \/ Exchange("get_send",
                ThenDrain("get_send", getRequest(arg.serverIp, arg.path), "get_drain"),
                SendFailed(ofString("")))                               \* lines 136-137
    \/ Drain("get_drain")                                               \* lines 142-149

httpPost ==
    \/ \E serverIp \in ServerIps, path \in Paths, data \in Datas :
          /\ Enter("httpPost", [serverIp |-> serverIp, path |-> path, data |-> data])
          /\ EnterConnected("post_start")
    \/ Exchange("post_start",
                ThenCommand("AT+CIPSEND=" \o
                            ToString(Len(postRequest(arg.serverIp, arg.path, arg.data))),
                            "post_send"),                               \* line 181
                ThenReturn("post_start", ofString("")))                 \* line 170
    \/ Exchange("post_send",
                ThenDrain("post_send", postRequest(arg.serverIp, arg.path, arg.data),
                          "post_drain"),
                SendFailed(ofString("")))                               \* lines 182-183
    \/ Drain("post_drain")                                              \* lines 188-195

(***************************************************************************)
(* getResponse (part_000:44-56).                                           *)
(***************************************************************************)
\* lines 45-46: the buffer is reset; what the channel holds stays there
getResponseBegin(label) ==
    /\ rxData' = ""
    /\ elapsed' = 0
    /\ pc' = label

\* lines 48-55, one pass of the loop: "found", "timeout" or "sleep" (go round again)
getResponsePoll(expected, timeout) ==
    IF ~(elapsed < timeout) THEN "timeout"
    ELSE IF expected # "" /\ indexOf(rxData \o serialIn, expected) >= 0 THEN "found"
    ELSE "sleep"

\* Got with line 49 assigning the bytes read instead of appending them
GotLastRead(label) == serialIn

\* what the getResponse at label returns when it returns in this pass (lines 51, 55)
Got(label) == IF elapsed < Waits[label].timeout THEN rxData \o serialIn ELSE rxData

\* the outcome of a finished getResponse is noted with what it returned
NotedGot(label, ok, got) ==
    hist' = Append(hist, [at |-> label, ok |-> ok, got |-> got])

\* the program waits at label in a getResponse; OnReturn says how the caller goes
\* on with Got(label)
Await(label, OnReturn) ==
    /\ pc = label
    /\ LET w == Waits[label]
           r == getResponsePoll(w.expected, w.timeout)
       IN  \/ /\ r = "sleep"                                            \* line 53
              /\ Polled(w.timeout)
              /\ elapsed' \in After(elapsed + 50)
              /\ UNCHANGED <<link, config, firebaseDataSent, tx, pc, op, arg, loc,
                             nchunks, ret, hist>>
           \/ /\ r # "sleep"
              /\ NotedGot(label, r = "found", Got(label))
              /\ OnReturn

(***************************************************************************)
(* Firebase helpers (firebase.ts:20-107).                                  *)
(***************************************************************************)
\* firebase.ts:20-32
extractHost(url) ==
    LET h1 == IF indexOf(url, "https://") >= 0 THEN substrFrom(url, 8) ELSE url
        h2 == IF indexOf(h1, "http://") >= 0 THEN substrFrom(h1, 7) ELSE h1
    IN  IF charAt(h2, Len(h2) - 1) = "/" THEN substr(h2, 0, Len(h2) - 1) ELSE h2

\* firebase.ts:35-40
cleanPath(path) == IF charAt(path, 0) = "/" THEN substrFrom(path, 1) ELSE path

Digits == <<"0", "1", "2", "3", "4", "5", "6", "7", "8", "9">>
isDigit(c) == \E d \in 1..10 : Digits[d] = c
\* char.charCodeAt(0) - 48
digitOf(c) == (CHOOSE d \in 1..10 : Digits[d] = c) - 1

RECURSIVE pow10(_)
pow10(n) == IF n = 0 THEN 1 ELSE 10 * pow10(n - 1)

\* firebase.ts:87-104: the loop from index i; the number is num / 10^decimalPlace
RECURSIVE parseLoop(_, _, _)
parseLoop(valueStr, i, st) ==
    IF ~(i < Len(valueStr)) THEN st
    ELSE LET char == charAt(valueStr, i)
         IN  parseLoop(valueStr, i + 1,
                 IF char = "-" /\ i = 0 THEN [st EXCEPT !.isNegative = TRUE]
                 ELSE IF char = "." THEN [st EXCEPT !.hasDecimal = TRUE]
                 ELSE IF isDigit(char)
                 THEN [st EXCEPT !.num = st.num * 10 + digitOf(char),
                                 !.decimalPlace = IF st.hasDecimal
                                                  THEN st.decimalPlace + 1
                                                  ELSE st.decimalPlace]
                 ELSE st)

\* firebase.ts:81-107: the number as a fraction [num, den]
parseStringToNumber(valueStr) ==
    LET st == parseLoop(valueStr, 0, [num |-> 0, isNegative |-> FALSE,
                                      hasDecimal |-> FALSE, decimalPlace |-> 0])
    IN  [num |-> IF st.isNegative THEN 0 - st.num ELSE st.num,
         den |-> pow10(st.decimalPlace)]

Zero == [num |-> 0, den |-> 1]

(***************************************************************************)
(* readFirebaseString and the typed reads (firebase.ts:174-271).           *)
(***************************************************************************)
\* firebase.ts:186, 357, 548
sslStart(host) == "AT+CIPSTART=\"SSL\",\"" \o host \o "\",443"

\* firebase.ts:182 and 191-195
readRequest(deviceName) ==
    LET fullPath == cleanPath(firebasePath \o "/" \o deviceName \o "/value")
        requestPath == "/" \o fullPath \o ".json?auth=" \o firebaseApiKey
    IN  "GET " \o requestPath \o " HTTP/1.1\r\n" \o
        "Host: " \o extractHost(firebaseDatabaseURL) \o "\r\n" \o
        "Connection: close\r\n" \o
        "\r\n"

\* firebase.ts:233-241: the scan from index i with cleanBody so far
RECURSIVE cleanScan(_, _, _)
cleanScan(body, i, cleanBody) ==
    IF ~(i < Len(body)) THEN cleanBody
    ELSE LET char == charAt(body, i)
         IN  IF isDigit(char) \/ char = "." \/ char = "-"
             THEN cleanScan(body, i + 1, cleanBody \o char)
             ELSE IF Len(cleanBody) > 0 THEN cleanBody
             ELSE cleanScan(body, i + 1, cleanBody)

\* firebase.ts:219-243: the value in the body
parseBody(body) ==
    IF indexOf(body, "null") >= 0 THEN ""                               \* line 222
    ELSE LET endQuote == indexOfFrom(body, "\"", 1)
         IN  IF charAt(body, 0) = "\"" /\ endQuote > 0
             THEN substr(body, 1, endQuote - 1)                         \* line 228
             ELSE cleanScan(body, 0, "")

\* firebase.ts:213-243: the value in the drained response
parseResponse(response) ==
    IF indexOf(response, "200 OK") < 0 THEN ""                          \* line 213
    ELSE LET bodyStart == indexOf(response, "\r\n\r\n")
         IN  IF bodyStart < 0 THEN ""                                   \* line 217
             ELSE parseBody(substrFrom(response, bodyStart + 4))

ReadOps == {"readFirebaseString", "readFirebaseNumber", "readFirebaseBoolean"}

\* typed with line 270 accepting only "1" and "true"
typedLowerCaseOnly(name, value) ==
    IF name = "readFirebaseNumber"
    THEN ofNumber(IF value = "" THEN Zero ELSE parseStringToNumber(value))
    ELSE IF name = "readFirebaseBoolean"
    THEN ofBoolean(value = "1" \/ value = "true")
    ELSE ofString(value)

\* what the typed read named name makes of the string read (lines 255-257, 269-270)
typed(name, value) ==
    IF name = "readFirebaseNumber"
    THEN ofNumber(IF value = "" THEN Zero ELSE parseStringToNumber(value))
    ELSE IF name = "readFirebaseBoolean"
    THEN ofBoolean(value = "1" \/ value = "true" \/ value = "TRUE")
    ELSE ofString(value)

DeviceNames == {"relay"}

\* restReady without the test of the API key
restReadyKeyUnchecked == wifiConnected /\ ~(firebaseDatabaseURL = "")

\* lines 176 and 179 (and 347, 350, 539, 542): the operation may go to the network
restReady == wifiConnected /\ ~(firebaseDatabaseURL = "" \/ firebaseApiKey = "")

\* the return of a read: readFirebaseString gives value; readFirebaseNumber and
\* readFirebaseBoolean are readFirebaseString followed by their conversion, so
\* which of the three was called shows only here
ReadReturn(value) ==
    \E name \in ReadOps :
        /\ op' = name
        /\ Return(typed(name, value))

\* a read returns value from the sendCommand at label
ThenReadReturn(label, value) ==
    /\ ReadReturn(value)
    /\ Polled(Waits[label].timeout)
    /\ UNCHANGED <<link, config, firebaseDataSent, tx, arg, loc, nchunks>>

readFirebaseString ==
    \/ \E deviceName \in DeviceNames :
          /\ pc = "idle"
          /\ arg' = [deviceName |-> deviceName]
          /\ loc' = [response |-> ""]
          /\ IF ~restReady
             THEN /\ ReadReturn("")                                     \* lines 176, 179
                  /\ tx' = <<>>
                  /\ hist' = <<>>
                  /\ UNCHANGED <<link, config, firebaseDataSent, rxData, serialIn,
                                 nchunks>>
             ELSE /\ op' = "readFirebaseString"
                  /\ FirstCommand(sslStart(extractHost(firebaseDatabaseURL)),
                                  "rfs_start")
    \/ Exchange("rfs_start",
                ThenCommand("AT+CIPSEND=" \o ToString(Len(readRequest(arg.deviceName))),
                            "rfs_send"),                                \* line 198
                ThenReadReturn("rfs_start", ""))                        \* line 187
    \/ Exchange("rfs_send",
                ThenDrain("rfs_send", readRequest(arg.deviceName), "rfs_pause"),
                ThenCommand("AT+CIPCLOSE", "rfs_closeSend"))            \* line 199
    \/ Exchange("rfs_closeSend",
                ThenReadReturn("rfs_closeSend", ""),                    \* line 200
                ThenReadReturn("rfs_closeSend", ""))
    \/ /\ pc = "rfs_pause"                                              \* lines 204-207
       /\ getResponseBegin("rfs_resp")
       /\ UNCHANGED <<link, config, firebaseDataSent, serialIn, tx, op, arg, loc,
                      nchunks, ret, hist>>
    \/ Await("rfs_resp",
             /\ loc' = [loc EXCEPT !.response = Got("rfs_resp")]        \* line 207
             /\ sendCommandBegin("AT+CIPCLOSE", "rfs_close")            \* line 210
             /\ UNCHANGED <<link, config, firebaseDataSent, op, arg, ret>>)
    \/ Exchange("rfs_close",
                ThenReadReturn("rfs_close", parseResponse(loc.response)),
                ThenReadReturn("rfs_close", parseResponse(loc.response)))

(***************************************************************************)
(* Firebase configuration (firebase.ts:121-162).                           *)
(***************************************************************************)
ApiKeys == {"", "k"}
DatabaseURLs == {"", "https://db.io/"}
ProjectIds == {""}
FirebasePaths == {"iot"}

configureFirebase ==
    \E apiKey \in ApiKeys, databaseURL \in DatabaseURLs, projectId \in ProjectIds :
        /\ Enter("configureFirebase",
                 [apiKey |-> apiKey, databaseURL |-> databaseURL, projectId |-> projectId])
        /\ firebaseApiKey' = apiKey
        /\ firebaseDatabaseURL' = databaseURL
        /\ firebaseProjectId' = projectId
        /\ Return(ofString(""))
        /\ tx' = <<>>
        /\ hist' = <<>>
        /\ UNCHANGED <<link, firebasePath, firebaseDataSent, rxData, serialIn, nchunks>>

setFirebasePath ==
    \E path \in FirebasePaths :
        /\ Enter("setFirebasePath", [path |-> path])
        /\ firebasePath' = path
        /\ Return(ofString(""))
        /\ tx' = <<>>
        /\ hist' = <<>>
        /\ UNCHANGED <<link, firebaseApiKey, firebaseDatabaseURL, firebaseProjectId,
                       firebaseDataSent, rxData, serialIn, nchunks>>

(***************************************************************************)
(* sendFirebaseData and the write wrappers (firebase.ts:343-449).          *)
(***************************************************************************)
Values == {5}
JsonDatas == {"{\"a\":1}"}

\* numberJson without the inner object
numberJsonFlat(deviceName, value) ==
    "{\"" \o deviceName \o "\":" \o ToString(value) \o "}"

\* firebase.ts:418
numberJson(deviceName, value) ==
    "{\"" \o deviceName \o "\":{\"value\":" \o ToString(value) \o "}}"

\* the calls that end in sendFirebaseData(path, jsonData), with the arguments they pass
WriteCalls ==
    {[name |-> "sendFirebaseData", path |-> path, jsonData |-> j] :
        path \in FirebasePaths, j \in JsonDatas}
    \cup {[name |-> "firebaseWriteNumber", path |-> firebasePath,
           jsonData |-> numberJson(d, v)] : d \in DeviceNames, v \in Values}
WriteOps == {"sendFirebaseData", "firebaseWriteNumber"}

\* firebase.ts:353 and 362-369
writeRequest(path, jsonData) ==
    LET requestPath == "/" \o cleanPath(path) \o ".json?auth=" \o firebaseApiKey
    IN  "PATCH " \o requestPath \o " HTTP/1.1\r\n" \o
        "Host: " \o extractHost(firebaseDatabaseURL) \o "\r\n" \o
        "Content-Type: application/json\r\n" \o
        "Content-Length: " \o ToString(Len(jsonData)) \o "\r\n" \o
        "Connection: close\r\n" \o
        "\r\n" \o
        jsonData

\* firebase.ts:380: the acknowledgement wait is taken to have failed
ackMissing(ack) == ack = ""

\* firebase.ts:389: the drained response is taken to report success
statusOk(response) == response # "" /\ indexOf(response, "200") >= 0

\* SentCleared without line 344
SentKept == UNCHANGED firebaseDataSent

\* firebase.ts:344: the flag of the last write is cleared
SentCleared == firebaseDataSent' = FALSE

sendFirebaseData ==
    \/ \E call \in WriteCalls :
          /\ Enter(call.name, [path |-> call.path, jsonData |-> call.jsonData])
          /\ SentCleared                                                \* line 344
          /\ IF ~restReady
             THEN /\ Return(ofString(""))                               \* lines 347, 350
                  /\ tx' = <<>>
                  /\ hist' = <<>>
                  /\ UNCHANGED <<link, config, rxData, serialIn, nchunks>>
             ELSE /\ sendCommandOn(<<>>, sslStart(extractHost(firebaseDatabaseURL)),
                                   "sfd_start")
                  /\ hist' = <<>>
                  /\ UNCHANGED <<link, config, ret>>
    \/ Exchange("sfd_start",
                ThenCommand("AT+CIPSEND=" \o
                            ToString(Len(writeRequest(arg.path, arg.jsonData))),
                            "sfd_send"),                                \* line 372
                ThenReturn("sfd_start", ofString("")))                  \* line 358
    \/ Exchange("sfd_send",
                /\ sendCommandNull(writeRequest(arg.path, arg.jsonData)) \* line 377
                /\ elapsed' = 0                                         \* lines 45-46
                /\ nchunks' = 0
                /\ pc' = "sfd_ack"
                /\ UNCHANGED <<link, config, firebaseDataSent, op, arg, loc, ret>>,
                ThenCommand("AT+CIPCLOSE", "sfd_closeSend"))            \* line 373
    \/ Exchange("sfd_closeSend",
                ThenReturn("sfd_closeSend", ofString("")),              \* line 374
                ThenReturn("sfd_closeSend", ofString("")))
    \/ Await("sfd_ack",
             /\ IF ackMissing(Got("sfd_ack"))
                THEN sendCommandBegin("AT+CIPCLOSE", "sfd_closeAck")    \* line 381
                ELSE /\ getResponseBegin("sfd_resp")                    \* line 386
                     /\ serialIn' = (IF elapsed < Waits.sfd_ack.timeout
                                     THEN "" ELSE serialIn)
                     /\ nchunks' = 0
                     /\ UNCHANGED tx
             /\ UNCHANGED <<link, config, firebaseDataSent, op, arg, loc, ret>>)
    \/ Exchange("sfd_closeAck",
                ThenReturn("sfd_closeAck", ofString("")),               \* line 382
                ThenReturn("sfd_closeAck", ofString("")))
    \/ Await("sfd_resp",
             /\ firebaseDataSent' = (IF statusOk(Got("sfd_resp"))       \* lines 389-391
                                     THEN TRUE ELSE firebaseDataSent)
             /\ sendCommandBegin("AT+CIPCLOSE", "sfd_close")            \* line 394
             /\ UNCHANGED <<link, config, op, arg, loc, ret>>)
    \/ Exchange("sfd_close",
                ThenReturn("sfd_close", ofString("")),
                ThenReturn("sfd_close", ofString("")))

(***************************************************************************)
(* firebaseDelete (firebase.ts:537-570).                                   *)
(***************************************************************************)
\* firebase.ts:544 and 553-557
deleteRequest(deviceName) ==
    LET fullPath == cleanPath(firebasePath \o "/" \o deviceName)
        requestPath == "/" \o fullPath \o ".json?auth=" \o firebaseApiKey
    IN  "DELETE " \o requestPath \o " HTTP/1.1\r\n" \o
        "Host: " \o extractHost(firebaseDatabaseURL) \o "\r\n" \o
        "Connection: close\r\n" \o
        "\r\n"

firebaseDelete ==
    \/ \E deviceName \in DeviceNames :
          /\ Enter("firebaseDelete", [deviceName |-> deviceName])
          /\ IF ~restReady
             THEN NoOp(ofString(""))                                    \* lines 539, 542
             ELSE FirstCommand(sslStart(extractHost(firebaseDatabaseURL)), "del_start")
    \/ Exchange("del_start",
                ThenCommand("AT+CIPSEND=" \o ToString(Len(deleteRequest(arg.deviceName))),
                            "del_send"),                                \* line 560
                ThenReturn("del_start", ofString("")))                  \* line 549
    \/ Exchange("del_send",
                ThenDrain("del_send", deleteRequest(arg.deviceName), "del_pause"),
                ThenCommand("AT+CIPCLOSE", "del_closeSend"))            \* line 561
    \/ Exchange("del_closeSend",
                ThenReturn("del_closeSend", ofString("")),              \* line 562
                ThenReturn("del_closeSend", ofString("")))
    \/ /\ pc = "del_pause"                                              \* lines 566-569
       /\ sendCommandBegin("AT+CIPCLOSE", "del_close")
       /\ UNCHANGED <<link, config, firebaseDataSent, op, arg, loc, ret, hist>>
    \/ Exchange("del_close",
                ThenReturn("del_close", ofString("")),
                ThenReturn("del_close", ofString("")))

(***************************************************************************)
(* The environment: the module sends bytes, the clock moves on.            *)
(***************************************************************************)
\* s begins with p
startsWith(s, p) == Len(s) >= Len(p) /\ SubSeq(s, 1, Len(p)) = p

\* HTTP responses the server may give to a request
Resp200 == "HTTP/1.1 200 OK\r\n\r\n\"on\""
Resp404 == "HTTP/1.1 404 Not Found\r\n\r\n\"200 OK\""

\* what the module may send in one piece, given the last thing written to it
Replies(last) ==
    IF startsWith(last, "AT+RST") THEN {"ready", "ERROR"}
    ELSE IF startsWith(last, "AT+CWJAP") THEN {"WIFI GOT IP", "FAIL", "ERROR"}
    ELSE IF startsWith(last, "AT+CIPSTART") THEN {"CONNECT", "OK", "ERROR"}
    ELSE IF startsWith(last, "AT+CIPSEND") THEN {"OK", ">", "ERROR"}
    ELSE IF startsWith(last, "AT") \/ last = "" THEN {"OK", "ERROR"}
    ELSE {"SEND OK", Resp200, Resp404}

\* the last thing the program wrote ("" when the call has written nothing)
LastWritten == IF tx = <<>> THEN "" ELSE tx[Len(tx)]

\* the module sends one chunk; the channel buffers it
Deliver ==
    /\ nchunks < MaxChunks
    /\ \E c \in Replies(LastWritten) : serialIn' = serialIn \o c
    /\ nchunks' = nchunks + 1
    /\ UNCHANGED <<link, config, firebaseDataSent, rxData, tx, pc, op, arg, loc,
                   elapsed, ret, hist>>

\* time passes while sendCommand spins (its loop does not sleep)
Tick ==
    /\ InSendCommand
    /\ elapsed < Waits[pc].timeout
    /\ elapsed' \in After(elapsed + 1)
    /\ UNCHANGED <<link, config, firebaseDataSent, rxData, serialIn, tx, pc, op, arg,
                   loc, nchunks, ret, hist>>

Init ==
    /\ esp8266Initialized = FALSE
    /\ rxData = ""
    /\ wifiConnected = FALSE
    /\ firebaseApiKey = ""
    /\ firebaseDatabaseURL = ""
    /\ firebaseProjectId = ""
    /\ firebasePath = "iot"
    /\ firebaseDataSent = FALSE
    /\ serialIn = ""
    /\ tx = <<>>
    /\ pc = "idle"
    /\ op = "none"
    /\ arg = NoArg
    /\ loc = [response |-> ""]
    /\ elapsed = 0
    /\ nchunks = 0
    /\ ret = ofString("")
    /\ hist = <<>>

Next ==
    \/ init
    \/ connectWiFi
    \/ disconnectWiFi
    \/ setWifiConnected
    \/ getRawFromServer
    \/ sendToServer
    \/ httpGet
    \/ httpPost
    \/ configureFirebase
    \/ setFirebasePath
    \/ readFirebaseString
    \/ sendFirebaseData
    \/ firebaseDelete
    \/ Deliver
    \/ Tick

Spec == Init /\ [][Next]_vars

\* the steps of a running operation (not the entry of one, not the environment)
Running ==
    /\ pc # "idle"
    /\ \/ init
       \/ connectWiFi
       \/ disconnectWiFi
       \/ getRawFromServer
       \/ sendToServer
       \/ httpGet
       \/ httpPost
       \/ readFirebaseString
       \/ sendFirebaseData
       \/ firebaseDelete

\* chunks the module may send during one wait in the behaviours checked for
\* termination
MaxLiveChunks == 1

DeliverLive == nchunks < MaxLiveChunks /\ Deliver

NextLive ==
    \/ init
    \/ connectWiFi
    \/ disconnectWiFi
    \/ setWifiConnected
    \/ getRawFromServer
    \/ sendToServer
    \/ httpGet
    \/ httpPost
    \/ configureFirebase
    \/ setFirebasePath
    \/ readFirebaseString
    \/ sendFirebaseData
    \/ firebaseDelete
    \/ DeliverLive
    \/ Tick

\* the clock keeps advancing (Tick) and the running operation keeps being
\* scheduled, each basic.pause returning (Running)
LiveSpec == Init /\ [][NextLive]_vars /\ WF_vars(Tick) /\ WF_vars(Running)

(***************************************************************************)
(* The reads against a server that answers with any of a range of bodies.  *)
(***************************************************************************)
\* chunks the module may send during one wait of a read
MaxReadChunks == 1

\* JSON bodies the database may hold at the path read
ReadBodies == {"\"on\"", "1", "\"true\"", "\"TRUE\"", "true", "null", "\"nullify\"",
               "-12.5", "x7", "1-2"}

ReadResponses == {"HTTP/1.1 200 OK\r\n\r\n" \o body : body \in ReadBodies} \cup {Resp404}

\* what the module may send in one piece during a read
ReadReplies(last) ==
    IF startsWith(last, "AT") \/ last = "" THEN {"OK", "ERROR"} ELSE ReadResponses

DeliverRead ==
    /\ nchunks < MaxReadChunks
    /\ \E c \in ReadReplies(LastWritten) : serialIn' = serialIn \o c
    /\ nchunks' = nchunks + 1
    /\ UNCHANGED <<link, config, firebaseDataSent, rxData, tx, pc, op, arg, loc,
                   elapsed, ret, hist>>

NextRead ==
    \/ setWifiConnected
    \/ configureFirebase
    \/ readFirebaseString
    \/ DeliverRead
    \/ Tick

ReadSpec == Init /\ [][NextRead]_vars

(***************************************************************************)
(* A second fiber.  basic.pause yields to the other fibers of the program  *)
(* (a forever loop, an event handler); one of them may call a public       *)
(* operation while the first caller sleeps inside its own.  Nothing in the *)
(* library records that an operation is in progress.  The second caller    *)
(* here calls disconnectWiFi, which runs to its return without sleeping.   *)
(***************************************************************************)
\* calls the second fiber may make during one operation of the first
MaxOtherCalls == 1

\* the first caller is inside a basic.pause: firebase.ts:204, or part_000:53 after
\* a pass of the loop of getResponse
Sleeping == pc = "rfs_pause" \/ (pc \in {"rfs_resp", "sfd_ack", "sfd_resp"} /\ elapsed > 0)

\* the second fiber runs disconnectWiFi (part_000:146-149) from its call to its
\* return: sendCommand resets rxData, drops what the channel holds, writes the
\* command and reads what the module answers; then the flag is cleared
OtherCaller ==
    /\ Sleeping
    /\ Cardinality({i \in 1..Len(tx) : tx[i] = "AT+CWQAP\r\n"}) < MaxOtherCalls
    /\ tx' = Append(tx, "AT+CWQAP\r\n")
    /\ rxData' \in Replies("AT+CWQAP\r\n") \cup {""}
    /\ serialIn' = ""
    /\ wifiConnected' = FALSE
    /\ elapsed' \in After(elapsed + 1)
    /\ UNCHANGED <<esp8266Initialized, config, firebaseDataSent, pc, op, arg, loc,
                   nchunks, ret, hist>>

NextFibers ==
    \/ setWifiConnected
    \/ configureFirebase
    \/ readFirebaseString
    \/ OtherCaller
    \/ Deliver
    \/ Tick

FiberSpec == Init /\ [][NextFibers]_vars

(***************************************************************************)
(* The program that never calls setWifiConnected: wifiConnected is written *)
(* by connectWiFi and disconnectWiFi only (part_000:118, 125, 148).        *)
(***************************************************************************)
NextLink ==
    \/ init
    \/ connectWiFi
    \/ disconnectWiFi
    \/ getRawFromServer
    \/ sendToServer
    \/ httpGet
    \/ httpPost
    \/ configureFirebase
    \/ setFirebasePath
    \/ readFirebaseString
    \/ sendFirebaseData
    \/ firebaseDelete
    \/ Deliver
    \/ Tick

LinkSpec == Init /\ [][NextLink]_vars

(***************************************************************************)
(* The reads of a program configured with any of a range of database URLs: *)
(* extractHost (firebase.ts:20-32) is applied to the URL by every read.    *)
(***************************************************************************)
Schemes == {"", "https://", "http://"}
Slashes == {"", "/", "//"}

\* URLs with no, one or two scheme prefixes and no, one or two trailing slashes,
\* and one that holds a scheme further in
HostURLs ==
    {s1 \o s2 \o "db.io" \o t : s1 \in Schemes, s2 \in Schemes, t \in Slashes}
    \cup {"db.io/?next=https://x.io"}

\* configureFirebase (firebase.ts:121-125) with the URL drawn from HostURLs
configureHost ==
    \E databaseURL \in HostURLs :
        /\ Enter("configureFirebase",
                 [apiKey |-> "k", databaseURL |-> databaseURL, projectId |-> ""])
        /\ firebaseApiKey' = "k"
        /\ firebaseDatabaseURL' = databaseURL
        /\ firebaseProjectId' = ""
        /\ Return(ofString(""))
        /\ tx' = <<>>
        /\ hist' = <<>>
        /\ UNCHANGED <<link, firebasePath, firebaseDataSent, rxData, serialIn, nchunks>>

NextHost ==
    \/ setWifiConnected
    \/ configureHost
    \/ readFirebaseString
    \/ DeliverRead
    \/ Tick

HostSpec == Init /\ [][NextHost]_vars

(***************************************************************************)
(* Vocabulary of the properties.                                           *)
(***************************************************************************)
contains(s, t) == indexOf(s, t) >= 0

\* the waits of an AT+CIPSTART exchange
StartWaits == {"raw_start", "sts_start", "get_start", "post_start",
               "rfs_start", "sfd_start", "del_start"}

HttpOps == {"getRawFromServer", "sendToServer", "httpGet", "httpPost"}
RestOps == ReadOps \cup WriteOps \cup {"firebaseDelete"}

\* the places where a REST operation waits
RestWaits == {"rfs_start", "rfs_send", "rfs_closeSend", "rfs_pause", "rfs_resp",
              "rfs_close", "sfd_start", "sfd_send", "sfd_closeSend", "sfd_ack",
              "sfd_closeAck", "sfd_resp", "sfd_close", "del_start", "del_send",
              "del_closeSend", "del_pause", "del_close"}

\* the current call has had a wait at label with outcome ok
Had(label, ok) == \E i \in 1..Len(hist) : hist[i].at = label /\ hist[i].ok = ok

\* a call of name has returned and nothing has been called since
Returned(name) == pc = "idle" /\ op = name

\* the step ends the sendCommand the program waits in
CommandEnds == pc \in CommandWaits /\ Len(hist') = Len(hist) + 1

(***************************************************************************)
(* C1. A sendCommand with a marker returns true exactly when a poll made   *)
(* while the elapsed time is below the timeout finds the marker in the     *)
(* buffer accumulated since the command was written, no earlier poll       *)
(* having seen "ERROR" without the marker; marker and "ERROR" in the same  *)
(* poll give true; it returns false when "ERROR" is seen first or when the *)
(* timeout elapses with neither seen.                                      *)
(***************************************************************************)
C1_NoEarlierVerdict ==
    pc \in CommandWaits =>
        /\ ~contains(rxData, Waits[pc].expected)
        /\ ~contains(rxData, "ERROR")

C1_Step ==
    CommandEnds =>
        LET w == Waits[pc]
            inTime == elapsed < w.timeout
            buf == rxData \o serialIn
            result == hist'[Len(hist')].ok
        IN  /\ result = TRUE <=> (inTime /\ contains(buf, w.expected))
            /\ result = FALSE <=>
                  \/ inTime /\ contains(buf, "ERROR") /\ ~contains(buf, w.expected)
                  \/ ~inTime

C1_SendCommandContract == [](C1_NoEarlierVerdict) /\ [][C1_Step]_vars

\* a connectWiFi returned true from a poll that held both "ERROR" and the marker
C1_Witness ==
    /\ Returned("connectWiFi")
    /\ ret = ofBoolean(TRUE)
    /\ contains(rxData, "ERROR")
    /\ contains(rxData, "WIFI GOT IP")

(***************************************************************************)
(* C2. While WiFi is not connected, or the database URL is empty, or the   *)
(* API key is empty, no REST operation is in progress, and a REST          *)
(* operation that has returned has written nothing and returned failure:   *)
(* "" / 0 / false for the reads, firebaseDataSent false after a write.     *)
(***************************************************************************)
RestBlocked == ~wifiConnected \/ firebaseDatabaseURL = "" \/ firebaseApiKey = ""

C2_RestNoOp ==
    RestBlocked =>
        /\ pc \notin RestWaits
        /\ (pc = "idle" /\ op \in RestOps) =>
              /\ tx = <<>>
              /\ op = "readFirebaseString" => ret = ofString("")
              /\ op = "readFirebaseNumber" => ret = ofNumber(Zero)
              /\ op = "readFirebaseBoolean" => ret = ofBoolean(FALSE)
              /\ op \in WriteOps => ~firebaseDataSent

\* a typed read was refused for the empty API key alone
C2_Witness ==
    /\ Returned("readFirebaseNumber")
    /\ wifiConnected
    /\ firebaseDatabaseURL # ""
    /\ firebaseApiKey = ""

(***************************************************************************)
(* C3. After sendFirebaseData returns, firebaseDataSent is true only if    *)
(* the acknowledgement wait of that call found "SEND OK".                  *)
(***************************************************************************)
C3_SentOnlyIfAcknowledged ==
    (pc = "idle" /\ op \in WriteOps /\ firebaseDataSent) => Had("sfd_ack", TRUE)

(***************************************************************************)
(* C4. When the AT+CIPSTART exchange of an HTTP or REST operation has      *)
(* succeeded, the last thing the operation has written when it returns is  *)
(* AT+CIPCLOSE.                                                            *)
(***************************************************************************)
Started == \E label \in StartWaits : Had(label, TRUE)

C4_ClosedOnEveryExit ==
    (pc = "idle" /\ op \in HttpOps \cup RestOps /\ Started) =>
        LastWritten = "AT+CIPCLOSE\r\n"

\* an HTTP operation gave up at AT+CIPSEND, after a successful AT+CIPSTART
C4_Witness ==
    /\ Returned("httpPost")
    /\ Had("post_start", TRUE)
    /\ Had("post_send", FALSE)

(***************************************************************************)
(* C5. readFirebaseString returns "" whenever the status line of the       *)
(* drained response does not contain "200 OK".                             *)
(***************************************************************************)
\* the response up to its first CR-LF
statusLine(response) ==
    IF contains(response, "\r\n") THEN substr(response, 0, indexOf(response, "\r\n"))
    ELSE response

C5_EmptyUnlessStatus200 ==
    (Returned("readFirebaseString") /\ ~contains(statusLine(loc.response), "200 OK"))
        => ret = ofString("")

(***************************************************************************)
(* C6. init writes AT+RST, ATE0, AT+CWMODE=1 in that order and stops at    *)
(* the first step that fails; after an init in which a step failed         *)
(* esp8266Initialized is false.                                            *)
(***************************************************************************)
InitCommands == <<"AT+RST\r\n", "ATE0\r\n", "AT+CWMODE=1\r\n">>
InitWaits == <<"init_rst", "init_ate0", "init_cwmode">>

C6_InitFlagFalseAfterFailure ==
    Returned("init") =>
        /\ tx = SubSeq(InitCommands, 1, Len(tx))
        /\ Len(hist) = Len(tx)
        /\ \A i \in 1..Len(hist) : hist[i].at = InitWaits[i]
        /\ \A i \in 1..(Len(hist) - 1) : hist[i].ok
        /\ (\E i \in 1..Len(hist) : ~hist[i].ok) => ~esp8266Initialized

(***************************************************************************)
(* C7. connectWiFi on an uninitialized module returns false, writes        *)
(* nothing and leaves wifiConnected as it was; on an initialized module    *)
(* wifiConnected is false while it waits, and on return wifiConnected and  *)
(* the result are both true exactly when the AT+CWJAP exchange found       *)
(* "WIFI GOT IP" within 20000 ms.                                          *)
(***************************************************************************)
C7_State ==
    /\ pc = "cw_jap" => (esp8266Initialized /\ ~wifiConnected)
    /\ Returned("connectWiFi") =>
          IF esp8266Initialized
          THEN /\ Len(tx) = 1 /\ startsWith(tx[1], "AT+CWJAP=")
               /\ Len(hist) = 1
               /\ ret = ofBoolean(hist[1].ok)
               /\ ofBoolean(wifiConnected) = ret
          ELSE ret = ofBoolean(FALSE) /\ tx = <<>>

C7_Step ==
    /\ (pc = "idle" /\ pc' = "idle" /\ op' = "connectWiFi" /\ UNCHANGED nchunks
            /\ ~esp8266Initialized)
          => UNCHANGED wifiConnected
    /\ (pc = "cw_jap" /\ pc' = "idle")
          => (ret' = ofBoolean(TRUE) <=>
                 (elapsed < 20000 /\ contains(rxData \o serialIn, "WIFI GOT IP")))

C7_ConnectWiFi == [](C7_State) /\ [][C7_Step]_vars

\* a connect on an initialized module failed on "ERROR"
C7_Witness ==
    /\ Returned("connectWiFi")
    /\ esp8266Initialized
    /\ ret = ofBoolean(FALSE)
    /\ contains(rxData, "ERROR")

(***************************************************************************)
(* C8. After disconnectWiFi returns wifiConnected is false, whatever the   *)
(* AT+CWQAP exchange gave and whatever the state before the call.          *)
(***************************************************************************)
C8_DisconnectClears == Returned("disconnectWiFi") => ~wifiConnected

\* the exchange failed on "ERROR", on a module that was never initialized
C8_Witness ==
    /\ Returned("disconnectWiFi")
    /\ Had("dw_qap", FALSE)
    /\ contains(rxData, "ERROR")
    /\ ~esp8266Initialized

(***************************************************************************)
(* C9. While an operation runs and the last thing it wrote is an           *)
(* AT+CIPSTART (TCP or SSL), wifiConnected is true: the command is written *)
(* only by a call that found the flag set, or that set it by a successful  *)
(* connectWiFi of its own.                                                 *)
(***************************************************************************)
C9_StartOnlyWhenConnected ==
    /\ (pc # "idle" /\ startsWith(LastWritten, "AT+CIPSTART")) => wifiConnected
    /\ pc \in StartWaits => startsWith(LastWritten, "AT+CIPSTART")

\* getRawFromServer connected by itself and went on to AT+CIPSTART
C9_Witness ==
    /\ pc = "raw_start"
    /\ Had("raw_jap", TRUE)

(***************************************************************************)
(* C10. Every operation that has been entered returns, whatever the module *)
(* sends, as long as the clock advances and each sleep returns.            *)
(***************************************************************************)
C10_EveryCallReturns == (pc # "idle") ~> (pc = "idle")

\* a connectWiFi returned false though the module never sent a byte
C10_Witness ==
    /\ Returned("connectWiFi")
    /\ hist = <<[at |-> "cw_jap", ok |-> FALSE]>>
    /\ rxData = ""
    /\ serialIn = ""
    /\ nchunks = 0

(***************************************************************************)
(* C11. getResponse starts from an empty buffer; each pass of its loop     *)
(* appends what the channel holds and then sleeps at least 50 ms; it       *)
(* returns in a pass made before the deadline only when the marker is      *)
(* non-empty and the buffer holds it, and otherwise only once the deadline *)
(* has passed; what it returns is the buffer accumulated during the call.  *)
(***************************************************************************)
ResponseWaits == DOMAIN Waits \ CommandWaits

C11_Step ==
    /\ (pc' \in ResponseWaits /\ pc' # pc) => (rxData' = "" /\ elapsed' = 0)
    /\ pc \in ResponseWaits =>
          LET w == Waits[pc]
              inTime == elapsed < w.timeout
              found == inTime /\ w.expected # "" /\ contains(rxData \o serialIn, w.expected)
              value == IF inTime THEN rxData \o serialIn ELSE rxData
          IN  /\ (pc' = pc /\ nchunks' = nchunks) =>
                    /\ inTime /\ ~found
                    /\ rxData' = rxData \o serialIn
                    /\ serialIn' = ""
                    /\ elapsed' >= elapsed + 50
              /\ pc' # pc =>
                    /\ found \/ ~inTime
                    /\ hist' = Append(hist, [at |-> pc, ok |-> found, got |-> value])
                    /\ pc = "rfs_resp" => loc'.response = value
                    /\ pc = "sfd_ack" => (pc' = "sfd_closeAck" <=> value = "")
                    /\ pc = "sfd_resp" =>
                          firebaseDataSent' = (value # "" /\ contains(value, "200"))

C11_GetResponseContract == [][C11_Step]_vars

\* a read whose getResponse ran to its deadline and returned what had arrived
C11_Witness ==
    /\ pc = "rfs_close"
    /\ Had("rfs_resp", FALSE)
    /\ loc.response # ""

(***************************************************************************)
(* C12. Every sendFirebaseData (and write wrapper) clears firebaseDataSent *)
(* on entry: the flag is false while the call runs up to its status check, *)
(* false after a call that returned without reaching the status check, and *)
(* the status check sets it only for a response that holds "200".          *)
(***************************************************************************)
C12_State ==
    op \in WriteOps =>
        /\ pc \in {"sfd_start", "sfd_send", "sfd_closeSend", "sfd_ack", "sfd_closeAck",
                   "sfd_resp"} => ~firebaseDataSent
        /\ (pc = "idle" /\ ~(\E i \in 1..Len(hist) : hist[i].at = "sfd_resp"))
              => ~firebaseDataSent

C12_Step ==
    \* a write is entered (the step is no chunk arriving at the idle program)
    /\ (pc = "idle" /\ op' \in WriteOps /\ nchunks' # nchunks + 1) => ~firebaseDataSent'
    /\ (pc = "sfd_resp" /\ pc' # pc) =>
          (firebaseDataSent' =>
              contains(IF elapsed < Waits.sfd_resp.timeout THEN rxData \o serialIn
                       ELSE rxData, "200"))

C12_ClearedByEveryWrite == [](C12_State) /\ [][C12_Step]_vars

\* a write gave up at AT+CIPSEND and the flag is false
C12_Witness ==
    /\ pc = "idle"
    /\ op \in WriteOps
    /\ Had("sfd_send", FALSE)
    /\ ~firebaseDataSent

(***************************************************************************)
(* C13. readFirebaseBoolean returns true exactly when the string the read  *)
(* produced is "1", "true" or "TRUE"; it returns false for every other     *)
(* string and for the "" of a read that failed.                            *)
(***************************************************************************)
\* the call got as far as draining a response
Drained == \E i \in 1..Len(hist) : hist[i].at = "rfs_resp"

\* the string readFirebaseString produced in the call that has returned
StringRead == IF Drained THEN parseResponse(loc.response) ELSE ""

C13_BooleanOfString ==
    Returned("readFirebaseBoolean") =>
        /\ ret \in {ofBoolean(b) : b \in BOOLEAN}
        /\ ret = ofBoolean(TRUE) <=> StringRead \in {"1", "true", "TRUE"}
        /\ ~Drained => ret = ofBoolean(FALSE)

\* the database held the string "TRUE"
C13_Witness ==
    /\ Returned("readFirebaseBoolean")
    /\ loc.response = "HTTP/1.1 200 OK\r\n\r\n\"TRUE\""
    /\ ret = ofBoolean(TRUE)

(***************************************************************************)
(* C14. The request firebaseWriteNumber("relay", 5) writes is a PATCH with *)
(* the body {"relay":{"value":5}}, a Content-Type of application/json and  *)
(* a Content-Length equal to the length of that body, 21.                  *)
(***************************************************************************)
\* the head and the body of a request written by sendCommand (which adds a CR-LF)
headOf(written) == substr(written, 0, indexOf(written, "\r\n\r\n") + 2)
bodyOf(written) ==
    LET from == indexOf(written, "\r\n\r\n") + 4
    IN  substr(written, from, Len(written) - from - 2)

C14_WriteNumberRequest ==
    (op = "firebaseWriteNumber" /\ Had("sfd_send", TRUE)) =>
        /\ Len(tx) >= 3
        /\ startsWith(tx[3], "PATCH /iot.json?auth=")
        /\ bodyOf(tx[3]) = "{\"relay\":{\"value\":5}}"
        /\ Len(bodyOf(tx[3])) = 21
        /\ contains(headOf(tx[3]), "\r\nContent-Length: 21\r\n")
        /\ contains(headOf(tx[3]), "\r\nContent-Type: application/json\r\n")

\* the request has been written and the call waits for the acknowledgement
C14_Witness ==
    /\ op = "firebaseWriteNumber"
    /\ pc = "sfd_ack"
    /\ Len(tx) = 3

(***************************************************************************)
(* C15. Whenever an operation has written a request after an AT+CIPSEND,   *)
(* the length announced in that AT+CIPSEND is the number of bytes of what  *)
(* was written next.                                                       *)
(***************************************************************************)
C15_AnnouncedLengthIsWritten ==
    \A i \in 1..(Len(tx) - 1) :
        (startsWith(tx[i], "AT+CIPSEND=") /\ ~startsWith(tx[i + 1], "AT+CIPCLOSE")) =>
            tx[i] = "AT+CIPSEND=" \o ToString(Len(tx[i + 1])) \o "\r\n"

\* the same for the operations that announce what they write
C15_ExactInFour ==
    op \in {"httpGet", "httpPost", "firebaseDelete"} \cup ReadOps =>
        C15_AnnouncedLengthIsWritten

\* sendFirebaseData announces two bytes less than it writes
C15_WriteAnnouncesLess ==
    (op \in WriteOps /\ Had("sfd_send", TRUE)) =>
        tx[2] = "AT+CIPSEND=" \o ToString(Len(tx[3]) - 2) \o "\r\n"

\* getRawFromServer and sendToServer announce two bytes more than they write
C15_RawAnnouncesMore ==
    (op \in {"getRawFromServer", "sendToServer"} /\ Len(tx) >= 2
        /\ startsWith(tx[Len(tx) - 1], "AT+CIPSEND=")
        /\ ~startsWith(LastWritten, "AT+CIPCLOSE")) =>
            tx[Len(tx) - 1] = "AT+CIPSEND=" \o ToString(Len(LastWritten) + 2) \o "\r\n"

(***************************************************************************)
(* C16. When an HTTP or REST operation has returned after writing an       *)
(* AT+CIPSTART, the last thing it wrote is AT+CIPCLOSE; in particular when *)
(* it judged the AT+CIPSTART exchange failed (by the timeout) although the *)
(* module reported the connection.                                         *)
(***************************************************************************)
\* the call judged its AT+CIPSTART failed, yet the channel holds the module's report
\* of the connection, which arrived after the deadline
StartJudgedFailedButMade ==
    \E label \in StartWaits :
        /\ Had(label, FALSE)
        /\ contains(serialIn, Waits[label].expected)
        /\ ~contains(rxData \o serialIn, "ERROR")

C16_ClosedAfterFailedStart ==
    (pc = "idle" /\ op \in HttpOps \cup RestOps /\ StartJudgedFailedButMade) =>
        LastWritten = "AT+CIPCLOSE\r\n"

\* the weaker fact that does hold: such a call has written nothing but the AT+CIPSTART
C16_NothingAfterFailedStart ==
    (pc = "idle" /\ op \in HttpOps \cup RestOps
        /\ \E label \in StartWaits : Had(label, FALSE)) =>
            startsWith(LastWritten, "AT+CIPSTART")

(***************************************************************************)
(* C17. An HTTP or REST operation whose AT+CIPSTART exchange failed has,   *)
(* when it returns, written no AT+CIPSEND and no request (only AT          *)
(* commands), AT+CIPCLOSE at most once, and returned its failure value.    *)
(***************************************************************************)
C17_FailedStartShortCircuits ==
    (pc = "idle" /\ op \in HttpOps \cup RestOps
        /\ \E label \in StartWaits : Had(label, FALSE)) =>
            /\ \A i \in 1..Len(tx) :
                  startsWith(tx[i], "AT+") /\ ~startsWith(tx[i], "AT+CIPSEND")
            /\ Cardinality({i \in 1..Len(tx) : tx[i] = "AT+CIPCLOSE\r\n"}) <= 1
            /\ op \in {"getRawFromServer", "httpGet", "httpPost", "readFirebaseString"}
                  => ret = ofString("")
            /\ op \in {"sendToServer", "readFirebaseBoolean"} => ret = ofBoolean(FALSE)
            /\ op = "readFirebaseNumber" => ret = ofNumber(Zero)
            /\ op \in WriteOps => ~firebaseDataSent

\* httpPost gave up on "ERROR" at its AT+CIPSTART
C17_Witness ==
    /\ Returned("httpPost")
    /\ Had("post_start", FALSE)
    /\ contains(rxData, "ERROR")

(***************************************************************************)
(* C18. With a second caller, exchanges do not overlap: while a read waits *)
(* for the response to its request, the last thing written to the channel  *)
(* is that request, and the receive buffer holds only what the module sent *)
(* after it.                                                               *)
(***************************************************************************)
C18_ExchangesDoNotOverlap ==
    pc \in {"rfs_pause", "rfs_resp"} =>
        /\ LastWritten = readRequest(arg.deviceName)
        /\ ~contains(LastWritten, "AT+CWQAP")

(***************************************************************************)
(* C19. sendCommand empties rxData and drops what the channel holds, then  *)
(* writes the command followed by CR-LF; so while a sendCommand waits, the *)
(* bytes that can take part in matching (rxData and the channel) are       *)
(* exactly the chunks the module sent after the command was written.       *)
(***************************************************************************)
\* the strings made of n chunks of S
RECURSIVE Concats(_, _)
Concats(S, n) == IF n = 0 THEN {""} ELSE {a \o c : a \in Concats(S, n - 1), c \in S}

endsWith(s, p) == Len(s) >= Len(p) /\ SubSeq(s, Len(s) - Len(p) + 1, Len(s)) = p

C19_State ==
    pc \in CommandWaits =>
        /\ endsWith(LastWritten, "\r\n")
        /\ rxData \o serialIn \in Concats(Replies(LastWritten), nchunks)

\* a step in which a sendCommand writes (every write but that of a bare request)
C19_Step ==
    (tx' # tx /\ tx' # <<>> /\ (startsWith(tx'[Len(tx')], "AT") \/ pc' = "sfd_ack")) =>
        /\ rxData' = ""
        /\ serialIn' = ""
        /\ endsWith(tx'[Len(tx')], "\r\n")

C19_StaleBytesDiscarded == [](C19_State) /\ [][C19_Step]_vars

\* ATE0 has just been written after an exchange that had read "ready": the buffer
\* is empty again
C19_Witness ==
    /\ pc = "init_ate0"
    /\ Had("init_rst", TRUE)
    /\ nchunks = 0
    /\ rxData = ""
    /\ serialIn = ""

(***************************************************************************)
(* C20. When a read has drained a response whose status line holds         *)
(* "200 OK" and whose body (the text after the first CRLF-CRLF) starts     *)
(* with a double quote and holds a second one, readFirebaseString returns  *)
(* the text between the two quotes.                                        *)
(***************************************************************************)
bodyOfResponse(response) == substrFrom(response, indexOf(response, "\r\n\r\n") + 4)

\* the body is a quoted string
Quoted(body) == charAt(body, 0) = "\"" /\ indexOfFrom(body, "\"", 1) > 0

\* the text between its quotes
Unquoted(body) == substr(body, 1, indexOfFrom(body, "\"", 1) - 1)

\* readFirebaseString has returned from a response with a 200 OK status line
Read200 ==
    /\ Returned("readFirebaseString")
    /\ Drained
    /\ contains(statusLine(loc.response), "200 OK")
    /\ contains(loc.response, "\r\n\r\n")

C20_QuotedValueReturned ==
    (Read200 /\ Quoted(bodyOfResponse(loc.response)))
        => ret = ofString(Unquoted(bodyOfResponse(loc.response)))

\* what does hold: the quoted text is returned unless "null" occurs in the body
C20_QuotedWithoutNull ==
    (Read200 /\ Quoted(bodyOfResponse(loc.response))
        /\ ~contains(bodyOfResponse(loc.response), "null"))
        => ret = ofString(Unquoted(bodyOfResponse(loc.response)))

\* what does hold: "" is returned whenever "null" occurs anywhere in the body
C20_NullAnywhere ==
    (Read200 /\ contains(bodyOfResponse(loc.response), "null")) => ret = ofString("")

(***************************************************************************)
(* C21. On a 200 OK read whose body does not start with a double quote,    *)
(* readFirebaseString returns the longest prefix of the body made of an    *)
(* optional single leading minus followed by digits and dots: a body whose *)
(* first character is none of these yields "", and a minus that is not the *)
(* first character is not kept.                                            *)
(***************************************************************************)
\* the longest run of digits and dots of body from index i
RECURSIVE digitsAndDots(_, _)
digitsAndDots(body, i) ==
    IF i < Len(body) /\ (isDigit(charAt(body, i)) \/ charAt(body, i) = ".")
    THEN charAt(body, i) \o digitsAndDots(body, i + 1)
    ELSE ""

\* the numeric prefix of body: an optional leading minus, then digits and dots
numericPrefix(body) ==
    IF charAt(body, 0) = "-" THEN "-" \o digitsAndDots(body, 1)
    ELSE digitsAndDots(body, 0)

\* readFirebaseString has returned from a 200 OK response with an unquoted body
ReadUnquoted == Read200 /\ charAt(bodyOfResponse(loc.response), 0) # "\""

C21_NumericPrefixReturned ==
    ReadUnquoted => ret = ofString(numericPrefix(bodyOfResponse(loc.response)))

\* the indices of body that hold a digit, a dot or a minus
NumericAt(body) ==
    {i \in 0..(Len(body) - 1) :
        isDigit(charAt(body, i)) \/ charAt(body, i) \in {".", "-"}}

\* the first maximal run of digits, dots and minus signs anywhere in body
firstNumericRun(body) ==
    LET at == NumericAt(body)
    IN  IF at = {} THEN ""
        ELSE LET a == CHOOSE i \in at : \A j \in at : i <= j
                 b == CHOOSE j \in at : /\ \A k \in a..j : k \in at
                                        /\ (j + 1) \notin at
                                        /\ j >= a
             IN  substr(body, a, b - a + 1)

\* what does hold: leading characters outside the set are skipped, and a minus
\* is kept wherever it stands in the run
C21_FirstRunReturned ==
    (ReadUnquoted /\ ~contains(bodyOfResponse(loc.response), "null"))
        => ret = ofString(firstNumericRun(bodyOfResponse(loc.response)))

\* the two bodies on which the scan and the numeric prefix differ are read
C21_SkipsLeading ==
    (ReadUnquoted /\ bodyOfResponse(loc.response) = "x7") => ret = ofString("7")

C21_KeepsInnerMinus ==
    (ReadUnquoted /\ bodyOfResponse(loc.response) = "1-2") => ret = ofString("1-2")

(***************************************************************************)
(* C22. If, during sendFirebaseData, the AT+CIPSTART and AT+CIPSEND        *)
(* exchanges succeed and the module then delivers "SEND OK" followed by an *)
(* HTTP response containing "200" before the waits expire, then            *)
(* firebaseDataSent is true after the call, however the bytes are split    *)
(* across polls ("SEND OK" and the response in the same poll included).    *)
(***************************************************************************)
\* a getResponse at label has finished in the call
Waited(label) == \E i \in 1..Len(hist) : hist[i].at = label

\* what it returned
GotAt(label) == hist[CHOOSE i \in 1..Len(hist) : hist[i].at = label].got

\* the text of s after the first occurrence of t
after(s, t) == substrFrom(s, indexOf(s, t) + Len(t))

\* a write has returned after both exchanges succeeded and both waits were made
WriteWaited ==
    /\ pc = "idle"
    /\ op \in WriteOps
    /\ Had("sfd_start", TRUE)
    /\ Had("sfd_send", TRUE)
    /\ Waited("sfd_ack")
    /\ Waited("sfd_resp")

\* what the program read from the module after "SEND OK", in the two waits
HeardAfterSendOk == after(GotAt("sfd_ack"), "SEND OK") \o GotAt("sfd_resp")

\* "SEND OK" and then a response holding "200" were read before the deadlines
AcknowledgedThen200 ==
    /\ WriteWaited
    /\ Had("sfd_ack", TRUE)
    /\ contains(HeardAfterSendOk, "200")

C22_SentWhenAcknowledgedThen200 == AcknowledgedThen200 => firebaseDataSent

\* what does hold: the flag is set when the "200" is read by the second wait
C22_SentWhen200InSecondWait ==
    (WriteWaited /\ contains(GotAt("sfd_resp"), "200")) => firebaseDataSent

\* what does hold: a response read by the first wait is dropped, and the flag
\* stays false unless a "200" arrives again
C22_ResponseInFirstWaitDropped ==
    (WriteWaited /\ ~contains(GotAt("sfd_resp"), "200")) => ~firebaseDataSent

(***************************************************************************)
(* C23. In every state reached by init, connectWiFi, disconnectWiFi, the   *)
(* HTTP operations and the REST operations (setWifiConnected never called) *)
(* wifiConnected = true implies esp8266Initialized = true.                 *)
(***************************************************************************)
C23_ConnectedImpliesInitialized == wifiConnected => esp8266Initialized

\* connectWiFi has returned true
C23_Witness ==
    /\ Returned("connectWiFi")
    /\ ret = ofBoolean(TRUE)
    /\ wifiConnected
    /\ esp8266Initialized

(***************************************************************************)
(* C24. init never changes wifiConnected, whatever the outcome of its      *)
(* three steps (a re-initialization leaves a true wifiConnected true);     *)
(* httpGet, httpPost, the REST reads and firebaseDelete leave              *)
(* esp8266Initialized, wifiConnected, the database configuration and       *)
(* firebaseDataSent unchanged.                                             *)
(***************************************************************************)
FrameOps == {"httpGet", "httpPost", "firebaseDelete"} \cup ReadOps

\* op' names the call a step belongs to: its entry, its steps and its return
C24_Step ==
    /\ op' = "init" => wifiConnected' = wifiConnected
    /\ op' \in FrameOps => UNCHANGED <<link, config, firebaseDataSent>>

C24_FramesKept == [][C24_Step]_vars

\* a second init has reset the module and returned with wifiConnected still true
C24_Witness ==
    /\ Returned("init")
    /\ Had("init_rst", TRUE)
    /\ esp8266Initialized
    /\ wifiConnected

(***************************************************************************)
(* C25. extractHost removes at most one scheme prefix (one of "https://"   *)
(* or "http://", and only as a prefix) and at most one trailing slash, and *)
(* it is idempotent: extractHost(extractHost(u)) = extractHost(u).         *)
(***************************************************************************)
\* a read has written its AT+CIPSTART with the host taken from the URL
HostWritten ==
    /\ op = "readFirebaseString"
    /\ pc = "rfs_start"
    /\ tx = <<sslStart(extractHost(firebaseDatabaseURL)) \o "\r\n">>

\* host is url less at most one scheme prefix and at most one trailing slash
StrippedOnce(url, host) ==
    \E scheme \in {"", "https://", "http://"}, slash \in {"", "/"} :
        url = scheme \o host \o slash

C25_ExtractHostContract ==
    HostWritten =>
        /\ StrippedOnce(firebaseDatabaseURL, extractHost(firebaseDatabaseURL))
        /\ extractHost(extractHost(firebaseDatabaseURL)) = extractHost(firebaseDatabaseURL)

\* url has at most one scheme, at its start, and at most one trailing slash
PlainURL(url) ==
    \E scheme \in {"", "https://", "http://"}, slash \in {"", "/"} :
        /\ url = scheme \o "db.io" \o slash

\* what does hold: on such URLs the host is the URL stripped once, and a second
\* application changes nothing
C25_PlainURLs ==
    (HostWritten /\ PlainURL(firebaseDatabaseURL)) =>
        /\ extractHost(firebaseDatabaseURL) = "db.io"
        /\ extractHost(extractHost(firebaseDatabaseURL)) = extractHost(firebaseDatabaseURL)

\* what does hold: two trailing slashes lose one at each application
C25_TwoSlashes ==
    (HostWritten /\ firebaseDatabaseURL = "https://db.io//") =>
        /\ extractHost(firebaseDatabaseURL) = "db.io/"
        /\ extractHost(extractHost(firebaseDatabaseURL)) = "db.io"

\* what does hold: "https://" then "http://" are both removed in one application
C25_TwoSchemes ==
    (HostWritten /\ firebaseDatabaseURL = "https://http://db.io") =>
        extractHost(firebaseDatabaseURL) = "db.io"

\* what does hold: a scheme further in removes the first eight characters
C25_SchemeInside ==
    (HostWritten /\ firebaseDatabaseURL = "db.io/?next=https://x.io") =>
        extractHost(firebaseDatabaseURL) = "ext=https://x.io"
====
